---- MODULE Spec2Model ----
(***************************************************************************)
(* Cinder CSI driver: the volume attach/detach lifecycle against the cloud *)
(* volume registry (pkg/csi/cinder/openstack), its polling loops, and the  *)
(* node-side mount orchestration (pkg/csi/cinder/nodeserver.go, mount).    *)
(***************************************************************************)
EXTENDS Integers, Sequences, FiniteSets, TLC

VARIABLES
    vols,       \* cloud registry: volume id -> [exists, status, attachments]
    pending,    \* attach/detach requests the registry accepted and has not completed
    last,       \* what the latest step did (a driver call with its outcome, or a cloud step)
    prev,       \* the step before it
    attachOK,   \* per volume: instances whose AttachVolume returned success since the last detach
    attachAcc,  \* per volume: instances whose registry attach request was accepted since the last detach
    w,          \* the running WaitDiskAttached / WaitDiskDetached call
    dirs,       \* node: the paths that exist as directories
    mounts,     \* node: the mount table, path -> the mounts stacked on it
    devs,       \* node: the device nodes that exist
    fs,         \* node: device -> the filesystem on it ("" when unformatted)
    nlast,      \* node: what the latest node call did
    byid,       \* node: /dev/disk/by-id, [readable, files]
    meta,       \* the metadata service, [ok, Devices]
    bypath,     \* node: the names in /dev/disk/by-path
    dp,         \* the running GetDevicePath call
    sc,         \* the running ScanForAttach call
    ctx,        \* the context of the call that runs a polling loop, [call, cancelled]
    MInstance,  \* mount: the package variable MInstance (0: nil, else the Mount it holds)
    made,       \* mount: the number of Mount values constructed so far
    thr,        \* the requests under way: thread -> [pc, m, id, err]
    idfile,     \* node: the instance-id file, [err, content]
    blk         \* what the latest GetDiskFormat call got and returned

cloudVars == <<vols, pending>>
histVars == <<last, prev, attachOK, attachAcc>>
nodeVars == <<dirs, mounts, devs, fs, nlast>>
diskVars == <<byid, meta, bypath>>
pollVars == <<diskVars, dp, sc, ctx>>
procVars == <<MInstance, made, thr, idfile, blk>>
vars == <<vols, pending, last, prev, attachOK, attachAcc, w, dirs, mounts, devs, fs, nlast,
          byid, meta, bypath, dp, sc, ctx, MInstance, made, thr, idfile, blk>>

----------------------------------------------------------------------------
(* Identifiers and constants *)

Instances == {"i1", "i2"}
Volumes == {"v1"}

\* the volume statuses of openstack.go, and two transient server-side ones
VolumeAvailableStatus == "available"
VolumeInUseStatus == "in-use"
VolumeDeletedStatus == "deleted"
VolumeErrorStatus == "error"
VolumeAttachingStatus == "attaching"
VolumeDetachingStatus == "detaching"

\* the backoff step ceilings of the wait loops
diskAttachSteps == 15
diskDetachSteps == 13

\* at most this many accepted requests are in flight at the registry
MaxPending == 2

\* outcomes of one call of the cloud client's volumes.Get
GetOutcomes == {"ok", "BackendError"}

----------------------------------------------------------------------------
(* The registry's records, and the driver's view of them *)

NoVolume == [AttachedServerId |-> "", ID |-> "", Status |-> ""]

\* the registry's reply to volumes.Get for volumeID
RegistryGet(volumeID, outcome) ==
    IF outcome # "ok" THEN [err |-> outcome]
    ELSE IF ~vols[volumeID].exists THEN [err |-> "NotFound"]
    ELSE [err |-> "", ID |-> volumeID, Status |-> vols[volumeID].status,
          Attachments |-> vols[volumeID].attachments]

\* GetVolume: the Volume built from the registry's reply; the first attachment only
GetVolume(volumeID, outcome) ==
    LET r == RegistryGet(volumeID, outcome) IN
    IF r.err # "" THEN [err |-> r.err, vol |-> NoVolume]
    ELSE [err |-> "",
          vol |-> [AttachedServerId |->
                       IF Len(r.Attachments) > 0 THEN r.Attachments[1] ELSE "",
                   ID |-> r.ID, Status |-> r.Status]]

\* the attachment the registry record shows now ("" when none or no record)
ServerOf(vs, volumeID) ==
    IF vs[volumeID].exists /\ Len(vs[volumeID].attachments) > 0
    THEN vs[volumeID].attachments[1] ELSE ""

----------------------------------------------------------------------------
(* Driver calls on the registry: what each returns, from the current records.   *)
(* result is "ok" or the error class; issued says whether the registry call     *)
(* (volumeattach.Create, volumeattach.Delete, volumes.Delete) was made; getErr, *)
(* fStatus and fServer are what the call's GetVolume fetched.                   *)

Outcome(result, handle, issued, g) ==
    [result |-> result, handle |-> handle, issued |-> issued,
     getErr |-> g.err, fStatus |-> g.vol.Status, fServer |-> g.vol.AttachedServerId]

\* AttachVolume without the already-attached-here short-circuit
AttachVolume_NoShortCircuit(instanceID, volumeID, getOutcome, createOk) ==
    LET g == GetVolume(volumeID, getOutcome) IN
    IF g.err # "" THEN Outcome(g.err, "", FALSE, g)
    ELSE IF g.vol.AttachedServerId # "" THEN Outcome("Conflict", "", FALSE, g)
    ELSE IF createOk THEN Outcome("ok", g.vol.ID, TRUE, g)
    ELSE Outcome("BackendError", "", TRUE, g)

\* AttachVolume(instanceID, volumeID); createOk: the registry accepts the request
AttachVolume(instanceID, volumeID, getOutcome, createOk) ==
    LET g == GetVolume(volumeID, getOutcome) IN
    IF g.err # "" THEN Outcome(g.err, "", FALSE, g)
    ELSE IF g.vol.AttachedServerId # ""
         THEN IF instanceID = g.vol.AttachedServerId
              THEN Outcome("ok", g.vol.ID, FALSE, g)
              ELSE Outcome("Conflict", "", FALSE, g)
    ELSE IF createOk THEN Outcome("ok", g.vol.ID, TRUE, g)
    ELSE Outcome("BackendError", "", TRUE, g)

\* DetachVolume without the already-available short-circuit
DetachVolume_NoAvailableCheck(instanceID, volumeID, getOutcome, deleteOk) ==
    LET g == GetVolume(volumeID, getOutcome) IN
    IF g.err # "" THEN Outcome(g.err, "", FALSE, g)
    ELSE IF g.vol.Status # VolumeInUseStatus THEN Outcome("InvalidState", "", FALSE, g)
    ELSE IF g.vol.AttachedServerId # instanceID THEN Outcome("NotAttachedHere", "", FALSE, g)
    ELSE IF deleteOk THEN Outcome("ok", "", TRUE, g)
    ELSE Outcome("BackendError", "", TRUE, g)

\* DetachVolume without the check of the attached instance
DetachVolume_NoServerCheck(instanceID, volumeID, getOutcome, deleteOk) ==
    LET g == GetVolume(volumeID, getOutcome) IN
    IF g.err # "" THEN Outcome(g.err, "", FALSE, g)
    ELSE IF g.vol.Status = VolumeAvailableStatus THEN Outcome("ok", "", FALSE, g)
    ELSE IF g.vol.Status # VolumeInUseStatus THEN Outcome("InvalidState", "", FALSE, g)
    ELSE IF deleteOk THEN Outcome("ok", "", TRUE, g)
    ELSE Outcome("BackendError", "", TRUE, g)

\* DetachVolume(instanceID, volumeID); deleteOk: the registry accepts the request
DetachVolume(instanceID, volumeID, getOutcome, deleteOk) ==
    LET g == GetVolume(volumeID, getOutcome) IN
    IF g.err # "" THEN Outcome(g.err, "", FALSE, g)
    ELSE IF g.vol.Status = VolumeAvailableStatus THEN Outcome("ok", "", FALSE, g)
    ELSE IF g.vol.Status # VolumeInUseStatus THEN Outcome("InvalidState", "", FALSE, g)
    ELSE IF g.vol.AttachedServerId # instanceID THEN Outcome("NotAttachedHere", "", FALSE, g)
    ELSE IF deleteOk THEN Outcome("ok", "", TRUE, g)
    ELSE Outcome("BackendError", "", TRUE, g)

\* diskIsUsed(volumeID)
diskIsUsed(volumeID, getOutcome) ==
    LET g == GetVolume(volumeID, getOutcome) IN
    IF g.err # "" THEN [used |-> FALSE, g |-> g]
    ELSE [used |-> g.vol.AttachedServerId # "", g |-> g]

\* DeleteVolume without the check of diskIsUsed's answer
DeleteVolume_Unguarded(volumeID, getOutcome, deleteOk) ==
    LET u == diskIsUsed(volumeID, getOutcome) IN
    IF u.g.err # "" THEN Outcome(u.g.err, "", FALSE, u.g)
    ELSE IF deleteOk THEN Outcome("ok", "", TRUE, u.g)
    ELSE Outcome("BackendError", "", TRUE, u.g)

\* DeleteVolume(volumeID); deleteOk: the registry's volumes.Delete succeeds
DeleteVolume(volumeID, getOutcome, deleteOk) ==
    LET u == diskIsUsed(volumeID, getOutcome) IN
    IF u.g.err # "" THEN Outcome(u.g.err, "", FALSE, u.g)
    ELSE IF u.used THEN Outcome("StillAttached", "", FALSE, u.g)
    ELSE IF deleteOk THEN Outcome("ok", "", TRUE, u.g)
    ELSE Outcome("BackendError", "", TRUE, u.g)

----------------------------------------------------------------------------
(* The step records kept in last and prev *)

NoStep == [op |-> "none", inst |-> "", vol |-> "", result |-> "", handle |-> "",
           issued |-> FALSE, getErr |-> "", fStatus |-> "", fServer |-> "",
           srvAfter |-> "", changed |-> FALSE, afterOther |-> FALSE]

CloudStep == [NoStep EXCEPT !.op = "cloud"]

\* the record of a driver call: its outcome o, the registry after it (nv, np);
\* afterOther: the call came after another instance's successful AttachVolume on
\* this volume, with no detach since
Step(op, instanceID, volumeID, o, nv, np) ==
    [op |-> op, inst |-> instanceID, vol |-> volumeID, result |-> o.result,
     handle |-> o.handle, issued |-> o.issued, getErr |-> o.getErr,
     fStatus |-> o.fStatus, fServer |-> o.fServer,
     srvAfter |-> ServerOf(nv, volumeID),
     changed |-> (nv # vols \/ np # pending),
     afterOther |-> (attachOK[volumeID] \ {instanceID}) # {}]

Request(kind, instanceID, volumeID) == [kind |-> kind, inst |-> instanceID, vol |-> volumeID]

\* the registry takes requests only while fewer than MaxPending are in flight
Accepts == IF Cardinality(pending) < MaxPending THEN BOOLEAN ELSE {FALSE}

----------------------------------------------------------------------------
(* The registry's side: what an accepted request does to the records *)

SetVol(volumeID, status, attachments) ==
    [vols EXCEPT ![volumeID] = [exists |-> TRUE, status |-> status,
                                attachments |-> attachments]]

Without(attachments, instanceID) ==
    SelectSeq(attachments, LAMBDA x : x # instanceID)

Holds(attachments, instanceID) ==
    \E k \in 1..Len(attachments) : attachments[k] = instanceID

SettledStatus(attachments) ==
    IF Len(attachments) = 0 THEN VolumeAvailableStatus ELSE VolumeInUseStatus

\* volumeattach.Create accepted: the request is queued and the volume reserved
AcceptAttach(instanceID, volumeID) ==
    [v |-> SetVol(volumeID, VolumeAttachingStatus, vols[volumeID].attachments),
     p |-> pending \cup {Request("attach", instanceID, volumeID)}]

\* volumeattach.Delete accepted
AcceptDetach(instanceID, volumeID) ==
    [v |-> SetVol(volumeID, VolumeDetachingStatus, vols[volumeID].attachments),
     p |-> pending \cup {Request("detach", instanceID, volumeID)}]

\* volumes.Delete accepted: the record is gone, and so are its requests
AcceptDelete(volumeID) ==
    [v |-> [vols EXCEPT ![volumeID] = [exists |-> FALSE, status |-> VolumeDeletedStatus,
                                       attachments |-> <<>>]],
     p |-> {r \in pending : r.vol # volumeID}]

Unchanged == [v |-> vols, p |-> pending]

----------------------------------------------------------------------------
(* Actions: the driver's calls *)

Record(step) == /\ last' = step
                /\ prev' = last

CreateVolumeCall(volumeID) ==
    /\ ~vols[volumeID].exists
    /\ \E createOk \in BOOLEAN :
         /\ vols' = IF createOk THEN SetVol(volumeID, VolumeAvailableStatus, <<>>) ELSE vols
         /\ Record([NoStep EXCEPT !.op = "Create", !.vol = volumeID,
                                  !.result = IF createOk THEN "ok" ELSE "BackendError",
                                  !.issued = TRUE, !.changed = createOk])
    /\ UNCHANGED <<pending, attachOK, attachAcc, w, nodeVars, pollVars, procVars>>

AttachVolumeCall(instanceID, volumeID) ==
    \E getOutcome \in GetOutcomes, createOk \in Accepts :
      LET o == AttachVolume(instanceID, volumeID, getOutcome, createOk)
          n == IF o.issued /\ o.result = "ok"
               THEN AcceptAttach(instanceID, volumeID) ELSE Unchanged
      IN /\ vols' = n.v
         /\ pending' = n.p
         /\ Record(Step("Attach", instanceID, volumeID, o, n.v, n.p))
         /\ attachOK' = IF o.result = "ok"
                        THEN [attachOK EXCEPT ![volumeID] = @ \cup {instanceID}]
                        ELSE attachOK
         /\ attachAcc' = IF o.issued /\ o.result = "ok"
                         THEN [attachAcc EXCEPT ![volumeID] = @ \cup {instanceID}]
                         ELSE attachAcc
         /\ UNCHANGED <<w, nodeVars, pollVars, procVars>>

DetachVolumeCall(instanceID, volumeID) ==
    \E getOutcome \in GetOutcomes, deleteOk \in Accepts :
      LET o == DetachVolume(instanceID, volumeID, getOutcome, deleteOk)
          n == IF o.issued /\ o.result = "ok"
               THEN AcceptDetach(instanceID, volumeID) ELSE Unchanged
      IN /\ vols' = n.v
         /\ pending' = n.p
         /\ Record(Step("Detach", instanceID, volumeID, o, n.v, n.p))
         /\ attachOK' = IF o.result = "ok"
                        THEN [attachOK EXCEPT ![volumeID] = {}] ELSE attachOK
         /\ attachAcc' = IF o.result = "ok"
                         THEN [attachAcc EXCEPT ![volumeID] = {}] ELSE attachAcc
         /\ UNCHANGED <<w, nodeVars, pollVars, procVars>>

DeleteVolumeCall(volumeID) ==
    \E getOutcome \in GetOutcomes, deleteOk \in BOOLEAN :
      LET o == DeleteVolume(volumeID, getOutcome, deleteOk)
          n == IF o.issued /\ o.result = "ok" THEN AcceptDelete(volumeID) ELSE Unchanged
      IN /\ vols' = n.v
         /\ pending' = n.p
         /\ Record(Step("Delete", "", volumeID, o, n.v, n.p))
         /\ attachOK' = IF o.result = "ok"
                        THEN [attachOK EXCEPT ![volumeID] = {}] ELSE attachOK
         /\ attachAcc' = IF o.result = "ok"
                         THEN [attachAcc EXCEPT ![volumeID] = {}] ELSE attachAcc
         /\ UNCHANGED <<w, nodeVars, pollVars, procVars>>

----------------------------------------------------------------------------
(* Actions: the registry completes accepted requests asynchronously *)

\* an accepted attach completes: the attachment is added, or the request fails
RegistryCompleteAttach(r) ==
    /\ r \in pending /\ r.kind = "attach"
    /\ pending' = pending \ {r}
    /\ \E attached \in BOOLEAN :
         LET a == vols[r.vol].attachments
             na == IF attached /\ ~Holds(a, r.inst) THEN Append(a, r.inst) ELSE a
         IN vols' = SetVol(r.vol, SettledStatus(na), na)

\* an accepted detach completes
RegistryCompleteDetach(r) ==
    /\ r \in pending /\ r.kind = "detach"
    /\ pending' = pending \ {r}
    /\ LET na == Without(vols[r.vol].attachments, r.inst)
       IN vols' = SetVol(r.vol, SettledStatus(na), na)

\* the volume goes to the error status
RegistryError(volumeID) ==
    /\ vols[volumeID].exists
    /\ vols[volumeID].status # VolumeErrorStatus
    /\ vols' = SetVol(volumeID, VolumeErrorStatus, vols[volumeID].attachments)
    /\ UNCHANGED pending

CloudCompleteAttach(r) ==
    /\ RegistryCompleteAttach(r)
    /\ Record(CloudStep)
    /\ UNCHANGED <<attachOK, attachAcc, w, nodeVars, pollVars, procVars>>

CloudCompleteDetach(r) ==
    /\ RegistryCompleteDetach(r)
    /\ Record(CloudStep)
    /\ attachOK' = [attachOK EXCEPT ![r.vol] = {}]
    /\ attachAcc' = [attachAcc EXCEPT ![r.vol] = {}]
    /\ UNCHANGED <<w, nodeVars, pollVars, procVars>>

CloudError(volumeID) ==
    /\ RegistryError(volumeID)
    /\ Record(CloudStep)
    /\ UNCHANGED <<attachOK, attachAcc, w, nodeVars, pollVars, procVars>>

----------------------------------------------------------------------------
(* The wait loops: WaitDiskAttached and WaitDiskDetached poll the registry under *)
(* wait.ExponentialBackoff. w holds the running call: polls counts the calls of  *)
(* the condition so far, result is "running", "ok" or the error returned, tick   *)
(* is what the latest poll's Get showed and seen collects that over all polls.   *)

\* late: a round was made after the caller's context was cancelled
NoWait == [kind |-> "none", inst |-> "", vol |-> "", polls |-> 0, result |-> "",
           seen |-> {}, tick |-> "", late |-> FALSE]

\* variant: attached to any server counts as attached
diskIsAttached_AnyServer(instanceID, volumeID, getOutcome) ==
    LET g == GetVolume(volumeID, getOutcome) IN
    IF g.err # "" THEN [attached |-> FALSE, err |-> g.err]
    ELSE [attached |-> g.vol.AttachedServerId # "", err |-> ""]

\* diskIsAttached(instanceID, volumeID)
diskIsAttached(instanceID, volumeID, getOutcome) ==
    LET g == GetVolume(volumeID, getOutcome) IN
    IF g.err # "" THEN [attached |-> FALSE, err |-> g.err]
    ELSE [attached |-> instanceID = g.vol.AttachedServerId, err |-> ""]

\* WaitDiskAttached's condition returning every fetch error
WaitDiskAttachedCondition_NoNotFound(instanceID, volumeID, getOutcome) ==
    LET d == diskIsAttached(instanceID, volumeID, getOutcome) IN
    IF d.err # "" THEN [done |-> FALSE, err |-> d.err]
    ELSE [done |-> d.attached, err |-> ""]

\* the condition function of WaitDiskAttached
WaitDiskAttachedCondition(instanceID, volumeID, getOutcome) ==
    LET d == diskIsAttached(instanceID, volumeID, getOutcome) IN
    IF d.err # "" /\ d.err # "NotFound" THEN [done |-> FALSE, err |-> d.err]
    ELSE [done |-> d.attached, err |-> ""]

\* WaitDiskDetached's condition taking NotFound for not attached
WaitDiskDetachedCondition_NotFoundDone(instanceID, volumeID, getOutcome) ==
    LET d == diskIsAttached(instanceID, volumeID, getOutcome) IN
    IF d.err # "" /\ d.err # "NotFound" THEN [done |-> FALSE, err |-> d.err]
    ELSE [done |-> ~d.attached, err |-> ""]

\* the condition function of WaitDiskDetached
WaitDiskDetachedCondition(instanceID, volumeID, getOutcome) ==
    LET d == diskIsAttached(instanceID, volumeID, getOutcome) IN
    IF d.err # "" THEN [done |-> FALSE, err |-> d.err]
    ELSE [done |-> ~d.attached, err |-> ""]

\* variant: the step ceiling is looked at before the condition's answer
ExponentialBackoff_StepsFirst(steps, polls, c) ==
    IF c.err # "" THEN c.err
    ELSE IF polls >= steps THEN "Timeout"
    ELSE IF c.done THEN "ok"
    ELSE "running"

\* a backoff that makes one round more than steps
ExponentialBackoff_ExtraRound(steps, polls, c) ==
    IF c.err # "" THEN c.err
    ELSE IF c.done THEN "ok"
    ELSE IF polls > steps THEN "Timeout"
    ELSE "running"

\* wait.ExponentialBackoff after call number polls of the condition returned c:
\* the condition's error, success, ErrWaitTimeout (reported as Timeout) once
\* steps calls have been made, or another round
ExponentialBackoff(steps, polls, c) ==
    IF c.err # "" THEN c.err
    ELSE IF c.done THEN "ok"
    ELSE IF polls >= steps THEN "Timeout"
    ELSE "running"

\* what a poll's Get showed, for the properties
TickOf(instanceID, volumeID, getOutcome) ==
    LET r == RegistryGet(volumeID, getOutcome) IN
    IF r.err # "" THEN r.err
    ELSE IF Len(r.Attachments) = 0 THEN "unattached"
    ELSE IF r.Attachments[1] = instanceID THEN "attached"
    ELSE "other"

Polled(result, tick) ==
    [w EXCEPT !.polls = @ + 1, !.result = result, !.tick = tick,
              !.seen = @ \cup {tick}, !.late = @ \/ ctx.cancelled]

WaitStart(kind, instanceID, volumeID) ==
    /\ w.result # "running"
    /\ w' = [NoWait EXCEPT !.kind = kind, !.inst = instanceID, !.vol = volumeID,
                           !.result = "running"]
    /\ UNCHANGED <<cloudVars, histVars, nodeVars, pollVars, procVars>>

\* one round of WaitDiskAttached's backoff loop
WaitDiskAttached ==
    /\ w.kind = "attach" /\ w.result = "running"
    /\ \E getOutcome \in GetOutcomes :
         LET c == WaitDiskAttachedCondition(w.inst, w.vol, getOutcome)
         IN w' = Polled(ExponentialBackoff(diskAttachSteps, w.polls + 1, c),
                        TickOf(w.inst, w.vol, getOutcome))
    /\ UNCHANGED <<cloudVars, histVars, nodeVars, pollVars, procVars>>

\* one round of WaitDiskDetached's backoff loop
WaitDiskDetached ==
    /\ w.kind = "detach" /\ w.result = "running"
    /\ \E getOutcome \in GetOutcomes :
         LET c == WaitDiskDetachedCondition(w.inst, w.vol, getOutcome)
         IN w' = Polled(ExponentialBackoff(diskDetachSteps, w.polls + 1, c),
                        TickOf(w.inst, w.vol, getOutcome))
    /\ UNCHANGED <<cloudVars, histVars, nodeVars, pollVars, procVars>>

(* The registry changing under a running wait: other calls' requests are *)
(* accepted and completed, the volume is created and deleted.            *)

ConcurrentCreate(volumeID) ==
    /\ ~vols[volumeID].exists
    /\ vols' = SetVol(volumeID, VolumeAvailableStatus, <<>>)
    /\ UNCHANGED <<pending, histVars, w, nodeVars, pollVars, procVars>>

ConcurrentAttach(instanceID, volumeID) ==
    /\ \E createOk \in Accepts :
         LET o == AttachVolume(instanceID, volumeID, "ok", createOk)
         IN /\ o.issued /\ o.result = "ok"
            /\ vols' = AcceptAttach(instanceID, volumeID).v
            /\ pending' = AcceptAttach(instanceID, volumeID).p
    /\ UNCHANGED <<histVars, w, nodeVars, pollVars, procVars>>

ConcurrentDetach(instanceID, volumeID) ==
    /\ \E deleteOk \in Accepts :
         LET o == DetachVolume(instanceID, volumeID, "ok", deleteOk)
         IN /\ o.issued /\ o.result = "ok"
            /\ vols' = AcceptDetach(instanceID, volumeID).v
            /\ pending' = AcceptDetach(instanceID, volumeID).p
    /\ UNCHANGED <<histVars, w, nodeVars, pollVars, procVars>>

ConcurrentDelete(volumeID) ==
    /\ LET o == DeleteVolume(volumeID, "ok", TRUE)
       IN /\ o.issued /\ o.result = "ok"
          /\ vols' = AcceptDelete(volumeID).v
          /\ pending' = AcceptDelete(volumeID).p
    /\ UNCHANGED <<histVars, w, nodeVars, pollVars, procVars>>

RegistryStep ==
    /\ \/ \E r \in pending : RegistryCompleteAttach(r)
       \/ \E r \in pending : RegistryCompleteDetach(r)
    /\ UNCHANGED <<histVars, w, nodeVars, pollVars, procVars>>

----------------------------------------------------------------------------
(* The node: mount table, directories and device nodes, as the node server's *)
(* calls on the mount provider see and change them.                          *)

Paths == {"/stage", "/pub"}
Devices == {"/dev/vdb"}

\* a node call's record. existed, wasMnt, wasSrc, hadBind: the path before the call
\* (it existed, was a mount point, the source of the mount on it, some bind mount
\* had it as source); othersKept: the mounts of all other paths are as before;
\* src, srcMnt: a publish's source and whether it was a mount point; hasDev, cap,
\* scan: a stage request's device handle and capability, and its device scan
NoNodeCall == [op |-> "none", path |-> "", result |-> "", existed |-> FALSE,
               wasMnt |-> FALSE, statErr |-> FALSE, unmounts |-> 0, mounted |-> FALSE,
               formatted |-> FALSE, changed |-> FALSE, wasSrc |-> "",
               hadBind |-> FALSE, othersKept |-> TRUE, src |-> "", srcMnt |-> FALSE,
               hasDev |-> FALSE, cap |-> "", scan |-> "", attempted |-> FALSE]

InitNode ==
    /\ dirs = {}
    /\ mounts = [p \in Paths |-> <<>>]
    /\ devs = {}
    /\ fs = [d \in Devices |-> ""]
    /\ nlast = NoNodeCall

\* the node as a value, so that calls can be composed
Node == [dirs |-> dirs, mounts |-> mounts, fs |-> fs]

\* variant: a bind mount is not seen as a mount point
IsLikelyNotMountPoint_MissesBind(n, path, statOk) ==
    IF path \notin n.dirs THEN [notMnt |-> TRUE, err |-> "NotExist"]
    ELSE IF ~statOk THEN [notMnt |-> TRUE, err |-> "StatError"]
    ELSE [notMnt |-> (n.mounts[path] = <<>>
                      \/ n.mounts[path][Len(n.mounts[path])].kind = "bind"),
          err |-> ""]

\* mount.New("").IsLikelyNotMountPoint(path) on node n; statOk: stat works
IsLikelyNotMountPoint(n, path, statOk) ==
    IF path \notin n.dirs THEN [notMnt |-> TRUE, err |-> "NotExist"]
    ELSE IF ~statOk THEN [notMnt |-> TRUE, err |-> "StatError"]
    ELSE [notMnt |-> n.mounts[path] = <<>>, err |-> ""]

\* variant: the check reports every path as not mounted
IsLikelyNotMountPointAttach_AlwaysNotMnt(n, targetpath, statOk, mkdirOk) ==
    IF ~statOk THEN [notMnt |-> TRUE, err |-> "StatError", n |-> n]
    ELSE IF targetpath \notin n.dirs
         THEN IF mkdirOk
              THEN [notMnt |-> TRUE, err |-> "", n |-> [n EXCEPT !.dirs = @ \cup {targetpath}]]
              ELSE [notMnt |-> TRUE, err |-> "MkdirError", n |-> n]
    ELSE [notMnt |-> TRUE, err |-> "", n |-> n]

\* IsLikelyNotMountPointAttach: a missing path is created and is not a mount point
IsLikelyNotMountPointAttach(n, targetpath, statOk, mkdirOk) ==
    LET r == IsLikelyNotMountPoint(n, targetpath, statOk) IN
    IF r.err = "NotExist"
    THEN IF mkdirOk
         THEN [notMnt |-> TRUE, err |-> "", n |-> [n EXCEPT !.dirs = @ \cup {targetpath}]]
         ELSE [notMnt |-> r.notMnt, err |-> "MkdirError", n |-> n]
    ELSE [notMnt |-> r.notMnt, err |-> r.err, n |-> n]

\* IsLikelyNotMountPointDetach: a missing path is an error
IsLikelyNotMountPointDetach(n, targetpath, statOk) ==
    LET r == IsLikelyNotMountPoint(n, targetpath, statOk) IN
    IF r.err # ""
    THEN IF r.err = "NotExist"
         THEN [notMnt |-> r.notMnt, err |-> "targetpath not found"]
         ELSE [notMnt |-> r.notMnt, err |-> r.err]
    ELSE [notMnt |-> r.notMnt, err |-> ""]

\* UnmountPath: mount.CleanupMountPoint(mountPath, mounter, false). A missing
\* path is skipped, a path that is no mount point is removed, otherwise the top
\* mount is unmounted and the directory removed once nothing is mounted on it.
\* variant: the error of the unmount is dropped
UnmountPath_ErrorSwallowed(n, mountPath, unmountOk) ==
    IF mountPath \notin n.dirs THEN [err |-> "", unmounts |-> 0, n |-> n]
    ELSE IF n.mounts[mountPath] = <<>>
         THEN [err |-> "", unmounts |-> 0, n |-> [n EXCEPT !.dirs = @ \ {mountPath}]]
    ELSE IF ~unmountOk THEN [err |-> "", unmounts |-> 1, n |-> n]
    ELSE [err |-> "", unmounts |-> 1,
          n |-> [n EXCEPT !.mounts[mountPath] = SubSeq(@, 1, Len(@) - 1),
                          !.dirs = @ \ {mountPath}]]

UnmountPath(n, mountPath, unmountOk) ==
    IF mountPath \notin n.dirs THEN [err |-> "", unmounts |-> 0, n |-> n]
    ELSE IF n.mounts[mountPath] = <<>>
         THEN [err |-> "", unmounts |-> 0, n |-> [n EXCEPT !.dirs = @ \ {mountPath}]]
    ELSE IF ~unmountOk THEN [err |-> "UnmountError", unmounts |-> 1, n |-> n]
    ELSE LET rest == SubSeq(n.mounts[mountPath], 1, Len(n.mounts[mountPath]) - 1)
             m == [n EXCEPT !.mounts[mountPath] = rest]
         IN IF rest = <<>>
            THEN [err |-> "", unmounts |-> 1, n |-> [m EXCEPT !.dirs = @ \ {mountPath}]]
            ELSE [err |-> "Failed to unmount path", unmounts |-> 1, n |-> m]

\* Mount(source, target, fstype, options) for a bind mount
Mount(n, source, target, readOnly, mountOk) ==
    IF source \notin n.dirs \/ target \notin n.dirs \/ ~mountOk
    THEN [err |-> "MountError", n |-> n]
    ELSE [err |-> "",
          n |-> [n EXCEPT !.mounts[target] =
                    Append(@, [kind |-> "bind", src |-> source, ro |-> readOnly])]]

\* FormatAndMount(source, target, fstype, options): an unformatted device is
\* formatted first
FormatAndMount(n, source, target, fstype, mountOk) ==
    IF source \notin devs \/ target \notin n.dirs \/ ~mountOk
    THEN [err |-> "MountError", formatted |-> FALSE, n |-> n]
    ELSE [err |-> "", formatted |-> n.fs[source] = "",
          n |-> [n EXCEPT !.fs[source] = IF @ = "" THEN fstype ELSE @,
                          !.mounts[target] =
                              Append(@, [kind |-> "dev", src |-> source, ro |-> FALSE])]]

\* ScanForAttach(devicePath): the device node is there on a tick before the timer
ScanForAttach(devicePath) ==
    IF devicePath \in devs THEN "" ELSE "Timeout"

\* the record of a node call on path: result and what it did, node n after it
NodeCall(op, path, statOk, result, unmounts, mounted, formatted, n) ==
    [NoNodeCall EXCEPT
     !.op = op, !.path = path, !.result = result,
     !.existed = path \in dirs,
     !.wasMnt = (path \in Paths /\ mounts[path] # <<>>),
     !.statErr = ~statOk, !.unmounts = unmounts, !.mounted = mounted,
     !.formatted = formatted, !.changed = n.mounts # mounts,
     !.wasSrc = IF path \in Paths /\ mounts[path] # <<>>
                THEN mounts[path][Len(mounts[path])].src ELSE "",
     !.hadBind = \E q \in Paths : \E k \in 1..Len(mounts[q]) :
                     mounts[q][k].kind = "bind" /\ mounts[q][k].src = path,
     !.othersKept = \A q \in Paths \ {path} : n.mounts[q] = mounts[q]]

\* the node after a call
Becomes(n, call) ==
    /\ dirs' = n.dirs
    /\ mounts' = n.mounts
    /\ fs' = n.fs
    /\ nlast' = call
    /\ UNCHANGED <<devs, cloudVars, histVars, w, pollVars, procVars>>

\* NodeUnpublishVolume and NodeUnstageVolume run the same steps on their path
Unmounting(op, path, statOk, unmountOk) ==
    LET c == IsLikelyNotMountPointDetach(Node, path, statOk) IN
    IF c.err # "" THEN Becomes(Node, NodeCall(op, path, statOk, "Internal", 0, FALSE, FALSE, Node))
    ELSE IF c.notMnt
         THEN Becomes(Node, NodeCall(op, path, statOk, "NotFound", 0, FALSE, FALSE, Node))
    ELSE LET u == UnmountPath(Node, path, unmountOk)
         IN Becomes(u.n, NodeCall(op, path, statOk,
                                  IF u.err # "" THEN "Internal" ELSE "ok",
                                  u.unmounts, FALSE, FALSE, u.n))

NodeUnpublishVolume(targetPath) ==
    \E statOk \in BOOLEAN, unmountOk \in BOOLEAN :
        Unmounting("Unpublish", targetPath, statOk, unmountOk)

NodeUnstageVolume(stagingTargetPath) ==
    \E statOk \in BOOLEAN, unmountOk \in BOOLEAN :
        Unmounting("Unstage", stagingTargetPath, statOk, unmountOk)

NodePublishVolume(source, targetPath, readOnly) ==
    \E statOk \in BOOLEAN, mkdirOk \in BOOLEAN, mountOk \in BOOLEAN :
      LET c == IsLikelyNotMountPointAttach(Node, targetPath, statOk, mkdirOk)
          call(result, mounted, n) ==
              [NodeCall("Publish", targetPath, statOk, result, 0, mounted, FALSE, n)
                   EXCEPT !.src = source, !.srcMnt = mounts[source] # <<>>]
      IN
      IF c.err # "" THEN Becomes(c.n, call("Internal", FALSE, c.n))
      ELSE IF c.notMnt
           THEN LET m == Mount(c.n, source, targetPath, readOnly, mountOk)
                IN Becomes(m.n, call(IF m.err # "" THEN "Internal" ELSE "ok",
                                     m.err = "", m.n))
      ELSE Becomes(c.n, call("ok", FALSE, c.n))

\* capability: "mount", "block", or "none" when the request carries neither
\* variant: the scan's error is not looked at
NodeStageVolumeAfterScan_IgnoresScan(n, scanErr, stagingTarget, devicePath, capability, statOk, mkdirOk, mountOk) ==
    LET out(result, mounted, formatted, attempted, m) ==
            [result |-> result, mounted |-> mounted, formatted |-> formatted,
             attempted |-> attempted, n |-> m]
        c == IsLikelyNotMountPointAttach(n, stagingTarget, statOk, mkdirOk)
    IN IF c.err # "" THEN out("Internal", FALSE, FALSE, FALSE, c.n)
       ELSE IF ~c.notMnt THEN out("ok", FALSE, FALSE, FALSE, c.n)
       ELSE IF capability = "block" THEN out("Unimplemented", FALSE, FALSE, FALSE, c.n)
       ELSE LET m == FormatAndMount(c.n, devicePath, stagingTarget, "ext4", mountOk)
            IN out(IF m.err # "" THEN "Internal" ELSE "ok", m.err = "", m.formatted,
                   TRUE, m.n)

\* NodeStageVolume from the return of m.ScanForAttach(devicePath) with scanErr
\* on: result, the node after it, and whether FormatAndMount was called and
\* what it did
NodeStageVolumeAfterScan(n, scanErr, stagingTarget, devicePath, capability, statOk, mkdirOk, mountOk) ==
    LET out(result, mounted, formatted, attempted, m) ==
            [result |-> result, mounted |-> mounted, formatted |-> formatted,
             attempted |-> attempted, n |-> m]
    IN IF scanErr # "" THEN out("Internal", FALSE, FALSE, FALSE, n)
       ELSE LET c == IsLikelyNotMountPointAttach(n, stagingTarget, statOk, mkdirOk) IN
            IF c.err # "" THEN out("Internal", FALSE, FALSE, FALSE, c.n)
            ELSE IF ~c.notMnt THEN out("ok", FALSE, FALSE, FALSE, c.n)
            ELSE IF capability = "block"
                 THEN out("Unimplemented", FALSE, FALSE, FALSE, c.n)
            ELSE LET m == FormatAndMount(c.n, devicePath, stagingTarget, "ext4", mountOk)
                 IN out(IF m.err # "" THEN "Internal" ELSE "ok", m.err = "",
                        m.formatted, TRUE, m.n)

\* the record of a Stage call that reached the scan
StageCall(stagingTarget, devicePath, capability, statOk, scanErr, a) ==
    [NodeCall("Stage", stagingTarget, statOk, a.result, 0, a.mounted, a.formatted, a.n)
         EXCEPT !.hasDev = TRUE, !.cap = capability,
                !.scan = IF scanErr = "" THEN "found" ELSE "Timeout",
                !.attempted = a.attempted]

NodeStageVolume(stagingTarget, hasDevicePath, devicePath, capability) ==
    \E statOk \in BOOLEAN, mkdirOk \in BOOLEAN, mountOk \in BOOLEAN :
      LET call(result) ==
              [NodeCall("Stage", stagingTarget, statOk, result, 0, FALSE, FALSE, Node)
                   EXCEPT !.hasDev = hasDevicePath, !.cap = capability]
      IN
      IF stagingTarget = "" THEN Becomes(Node, call("InvalidArgument"))
      ELSE IF ~hasDevicePath THEN Becomes(Node, call("InvalidArgument"))
      ELSE LET scanErr == ScanForAttach(devicePath)
               a == NodeStageVolumeAfterScan(Node, scanErr, stagingTarget, devicePath,
                                             capability, statOk, mkdirOk, mountOk)
           IN Becomes(a.n, StageCall(stagingTarget, devicePath, capability, statOk,
                                     scanErr, a))

\* the kernel creates or removes a device node (a device can go while mounted)
DeviceAppears(d) ==
    /\ d \notin devs
    /\ devs' = devs \cup {d}
    /\ UNCHANGED <<dirs, mounts, fs, nlast, cloudVars, histVars, w, pollVars, procVars>>

DeviceGone(d) ==
    /\ d \in devs
    /\ devs' = devs \ {d}
    /\ UNCHANGED <<dirs, mounts, fs, nlast, cloudVars, histVars, w, pollVars, procVars>>

NextNode ==
    \/ \E p \in Paths \cup {""}, h \in BOOLEAN, d \in Devices,
          c \in {"mount", "block", "none"} : NodeStageVolume(p, h, d, c)
    \/ \E s \in Paths, t \in Paths, ro \in BOOLEAN : NodePublishVolume(s, t, ro)
    \/ \E t \in Paths : NodeUnpublishVolume(t)
    \/ \E p \in Paths : NodeUnstageVolume(p)
    \/ \E d \in Devices : DeviceAppears(d)
    \/ \E d \in Devices : DeviceGone(d)

----------------------------------------------------------------------------------------------------------------------------------------
(* Device resolution: GetDevicePath and its two strategies. Volume ids and *)
(* file names are character sequences; a path is a directory and a name.   *)

Rep(c, n) == [i \in 1..n |-> c]

\* an id of the shape 8-4-4-4-12
UUID(a, e) ==
    Rep(a, 8) \o <<"-">> \o Rep("b", 4) \o <<"-">> \o Rep("c", 4) \o <<"-">>
        \o Rep("d", 4) \o <<"-">> \o Rep(e, 12)

VolA == UUID("a", "e")
VolOther == UUID("f", "f")
ShortID == Rep("a", 8)
\* the ids GetDevicePath is called with
VolumeIDs == {VolA, ShortID}

\* the file name prefix followed by serial
Name(prefix, serial) == [prefix |-> prefix, serial |-> serial]
NoPath == [dir |-> "", file |-> Name("", <<>>)]
\* path.Join(dir, name)
Join(dir, name) == [dir |-> dir, file |-> name]

NotDash(c) == c # "-"

\* candidateDeviceNodes of getDevicePathBySerialID, for an id of 20 characters
\* or more
candidateDeviceNodes(volumeID) ==
    << Name("virtio-", SubSeq(volumeID, 1, 20)),
       Name("scsi-0QEMU_QEMU_HARDDISK_", SubSeq(volumeID, 1, 20)),
       Name("wwn-0x", SelectSeq(volumeID, NotDash)) >>

\* the names /dev/disk/by-id can hold, in the order of their file names
ByIdSorted ==
    << Name("scsi-0QEMU_QEMU_HARDDISK_", SubSeq(VolA, 1, 20)),
       Name("virtio-", SubSeq(VolA, 1, 20)),
       Name("virtio-", SubSeq(VolOther, 1, 20)),
       Name("wwn-0x", SelectSeq(VolA, NotDash)) >>
ByIdNames == {ByIdSorted[k] : k \in 1..Len(ByIdSorted)}

\* ioutil.ReadDir("/dev/disk/by-id/"): the entries sorted by file name; none
\* when the directory cannot be read
ReadDir(dir) ==
    LET in(f) == f \in dir.files
    IN IF dir.readable THEN SelectSeq(ByIdSorted, in) ELSE <<>>

Least(S) == CHOOSE k \in S : \A j \in S : k <= j

\* (os *OpenStack) getDevicePathBySerialID(volumeID): the first directory entry
\* that equals a candidate; volumeID[:20] panics on a shorter id
OpenStack_getDevicePathBySerialID(volumeID, dir) ==
    IF Len(volumeID) < 20 THEN [panic |-> TRUE, path |-> NoPath]
    ELSE LET files == ReadDir(dir)
             c == candidateDeviceNodes(volumeID)
             hits == {k \in 1..Len(files) : \E j \in 1..Len(c) : c[j] = files[k]}
         IN IF hits = {} THEN [panic |-> FALSE, path |-> NoPath]
            ELSE [panic |-> FALSE, path |-> Join("/dev/disk/by-id/", files[Least(hits)])]

\* (m *Mount) getDevicePathBySerialID(volumeID): the same code in package mount
Mount_getDevicePathBySerialID(volumeID, dir) ==
    IF Len(volumeID) < 20 THEN [panic |-> TRUE, path |-> NoPath]
    ELSE LET files == ReadDir(dir)
             c == candidateDeviceNodes(volumeID)
             hits == {k \in 1..Len(files) : \E j \in 1..Len(c) : c[j] = files[k]}
         IN IF hits = {} THEN [panic |-> FALSE, path |-> NoPath]
            ELSE [panic |-> FALSE, path |-> Join("/dev/disk/by-id/", files[Least(hits)])]

\* an entry of the instance metadata's Devices
Device(type, serial, bus, address) ==
    [Type |-> type, Serial |-> serial, Bus |-> bus, Address |-> address]

\* the entries the metadata service can list; "[" makes a malformed glob pattern
MetaDevices ==
    { Device("disk", VolA, "scsi", "0:0:0:1"),
      Device("disk", VolA, "[", "0:0:0:1"),
      Device("nic", VolA, "scsi", "0:0:0:1"),
      Device("disk", VolOther, "scsi", "0:0:0:2") }

\* a name <pre>-<bus>-<address> of /dev/disk/by-path
ByPathName(pre, bus, address) == [pre |-> pre, bus |-> bus, address |-> address]

\* the names /dev/disk/by-path can hold, in the order of their file names
ByPathSorted ==
    << ByPathName("pci-0000:00:04.0", "scsi", "0:0:0:1"),
       ByPathName("pci-0000:00:04.0", "scsi", "0:0:0:2"),
       ByPathName("pci-0000:00:05.0", "scsi", "0:0:0:1") >>
ByPathNames == {ByPathSorted[k] : k \in 1..Len(ByPathSorted)}

\* filepath.Glob("/dev/disk/by-path/*-<bus>-<address>") over the names
Glob(bus, address, names) ==
    LET match(f) == f \in names /\ f.bus = bus /\ f.address = address
        found == SelectSeq(ByPathSorted, match)
    IN IF bus = "[" \/ address = "["
       THEN [err |-> "ErrBadPattern", paths |-> <<>>]
       ELSE [err |-> "",
             paths |-> [k \in 1..Len(found) |-> Join("/dev/disk/by-path/", found[k])]]

\* the entries of Devices that are a disk with the volume's serial
DiskEntries(volumeID, md) ==
    {k \in 1..Len(md.Devices) :
        md.Devices[k].Type = "disk" /\ md.Devices[k].Serial = volumeID}

\* variant: the first of several glob matches is returned
getDevicePathFromInstanceMetadata_FirstMatch(volumeID, md, names) ==
    IF ~md.ok \/ DiskEntries(volumeID, md) = {} THEN NoPath
    ELSE LET device == md.Devices[Least(DiskEntries(volumeID, md))]
             r == Glob(device.Bus, device.Address, names)
         IN IF r.err # "" \/ Len(r.paths) = 0 THEN NoPath ELSE r.paths[1]

\* getDevicePathFromInstanceMetadata(volumeID): the by-path name of the first
\* disk entry with the volume's serial, when the glob has exactly one match
getDevicePathFromInstanceMetadata(volumeID, md, names) ==
    IF ~md.ok THEN NoPath
    ELSE IF DiskEntries(volumeID, md) = {} THEN NoPath
    ELSE LET device == md.Devices[Least(DiskEntries(volumeID, md))]
             r == Glob(device.Bus, device.Address, names)
         IN IF r.err # "" THEN NoPath
            ELSE IF Len(r.paths) = 1 THEN r.paths[1]
            ELSE NoPath

\* what the metadata strategy had before it, for the properties
MetadataView(volumeID, md, names) ==
    LET e == DiskEntries(volumeID, md)
        r == IF md.ok /\ e # {}
             THEN Glob(md.Devices[Least(e)].Bus, md.Devices[Least(e)].Address, names)
             ELSE [err |-> "", paths |-> <<>>]
    IN [ok |-> md.ok, matched |-> md.ok /\ e # {}, globErr |-> r.err # "",
        count |-> Len(r.paths), paths |-> r.paths]
NoView == [ok |-> FALSE, matched |-> FALSE, globErr |-> FALSE, count |-> 0, paths |-> <<>>]

operationFinishSteps == 10
Mount_operationFinishSteps == 15

\* one call of a GetDevicePath condition: the strategies' paths (byId,
\* metaPath), whether the metadata strategy ran and what it had before it
Tick(panic, devicePath, byId, metaAsked, metaPath, view) ==
    [panic |-> panic, done |-> devicePath # NoPath, devicePath |-> devicePath,
     byId |-> byId, metaAsked |-> metaAsked, metaPath |-> metaPath, view |-> view]

\* variant: the metadata service is asked first
OpenStack_GetDevicePathCondition_MetadataFirst(volumeID, dir, md, names) ==
    LET p == getDevicePathFromInstanceMetadata(volumeID, md, names)
        b == OpenStack_getDevicePathBySerialID(volumeID, dir)
    IN IF p # NoPath
       THEN Tick(FALSE, p, b.path, TRUE, p, MetadataView(volumeID, md, names))
       ELSE IF b.panic THEN Tick(TRUE, NoPath, NoPath, TRUE, p, NoView)
       ELSE Tick(FALSE, b.path, b.path, TRUE, p, MetadataView(volumeID, md, names))

\* the condition function of (os *OpenStack) GetDevicePath
OpenStack_GetDevicePathCondition(volumeID, dir, md, names) ==
    LET b == OpenStack_getDevicePathBySerialID(volumeID, dir) IN
    IF b.panic THEN Tick(TRUE, NoPath, NoPath, FALSE, NoPath, NoView)
    ELSE IF b.path # NoPath THEN Tick(FALSE, b.path, b.path, FALSE, NoPath, NoView)
    ELSE LET p == getDevicePathFromInstanceMetadata(volumeID, md, names)
         IN Tick(FALSE, p, b.path, TRUE, p, MetadataView(volumeID, md, names))

\* the condition function of (m *Mount) GetDevicePath
Mount_GetDevicePathCondition(volumeID, dir) ==
    LET b == Mount_getDevicePathBySerialID(volumeID, dir) IN
    IF b.panic THEN Tick(TRUE, NoPath, NoPath, FALSE, NoPath, NoView)
    ELSE Tick(FALSE, b.path, b.path, FALSE, NoPath, NoView)

\* variant: the empty path is looked at before the timeout
GetDevicePathReturn_EmptyFirst(r, devicePath) ==
    IF r = "panic" THEN [path |-> NoPath, err |-> "panic"]
    ELSE IF devicePath = NoPath THEN [path |-> NoPath, err |-> "Empty"]
    ELSE IF r = "Timeout" THEN [path |-> NoPath, err |-> "Timeout"]
    ELSE [path |-> devicePath, err |-> ""]

\* what GetDevicePath returns after its backoff ended with r
GetDevicePathReturn(r, devicePath) ==
    IF r = "panic" THEN [path |-> NoPath, err |-> "panic"]
    ELSE IF r = "Timeout" THEN [path |-> NoPath, err |-> "Timeout"]
    ELSE IF devicePath = NoPath THEN [path |-> NoPath, err |-> "Empty"]
    ELSE [path |-> devicePath, err |-> ""]

Impls == {"openstack", "mount"}
StepsOf(impl) == IF impl = "openstack" THEN operationFinishSteps
                 ELSE Mount_operationFinishSteps

\* the GetDevicePath call: polls counts the condition's calls, tick is the latest
\* of them, found: some call returned true, late: a call was made after the
\* caller's context was cancelled
NoResolve == [impl |-> "", vol |-> <<>>, status |-> "idle", polls |-> 0,
              devicePath |-> NoPath, err |-> "",
              tick |-> Tick(FALSE, NoPath, NoPath, FALSE, NoPath, NoView),
              found |-> FALSE, late |-> FALSE]

GetDevicePathStart(impl, volumeID) ==
    /\ dp.status # "running"
    /\ dp' = [NoResolve EXCEPT !.impl = impl, !.vol = volumeID, !.status = "running"]
    /\ UNCHANGED <<cloudVars, histVars, w, nodeVars, procVars, diskVars, sc, ctx>>

\* one round of GetDevicePath's backoff loop, and the return after the last
GetDevicePathPoll ==
    /\ dp.status = "running"
    /\ LET c == IF dp.impl = "openstack"
                THEN OpenStack_GetDevicePathCondition(dp.vol, byid, meta, bypath)
                ELSE Mount_GetDevicePathCondition(dp.vol, byid)
           r == IF c.panic THEN "panic"
                ELSE ExponentialBackoff(StepsOf(dp.impl), dp.polls + 1,
                                        [done |-> c.done, err |-> ""])
           out == GetDevicePathReturn(r, c.devicePath)
       IN dp' = IF r = "running"
               THEN [dp EXCEPT !.polls = @ + 1, !.tick = c,
                              !.late = @ \/ ctx.cancelled]
               ELSE [dp EXCEPT !.polls = @ + 1, !.tick = c, !.status = "done",
                              !.devicePath = out.path, !.err = out.err,
                              !.found = c.done, !.late = @ \/ ctx.cancelled]
    /\ UNCHANGED <<cloudVars, histVars, w, nodeVars, procVars, diskVars, sc, ctx>>

\* udev creates a link in /dev/disk/by-id while a call polls
LinkAppears(f) ==
    /\ dp.status = "running"
    /\ byid.readable /\ f \notin byid.files
    /\ byid' = [byid EXCEPT !.files = @ \cup {f}]
    /\ UNCHANGED <<cloudVars, histVars, w, nodeVars, procVars, meta, bypath, dp, sc, ctx>>

NextResolve ==
    \/ \E impl \in Impls, v \in VolumeIDs : GetDevicePathStart(impl, v)
    \/ GetDevicePathPoll
    \/ \E f \in ByIdNames : LinkAppears(f)

\* the disks of a node where nothing is attached and no metadata service answers
InitDisk ==
    /\ byid = [readable |-> TRUE, files |-> {}]
    /\ meta = [ok |-> FALSE, Devices |-> <<>>]
    /\ bypath = {}

MaxDevices == 2

\* the lists of at most MaxDevices metadata entries
DeviceLists ==
    UNION {[1..n -> MetaDevices] : n \in 0..MaxDevices}

\* any disks: by-id readable with some names or unreadable, the metadata service
\* down or answering with a list, some names in by-path
AnyDisk ==
    /\ byid \in {[readable |-> FALSE, files |-> {}]}
                  \cup {[readable |-> TRUE, files |-> fl] : fl \in SUBSET ByIdNames}
    /\ meta \in {[ok |-> FALSE, Devices |-> <<>>]}
                  \cup {[ok |-> TRUE, Devices |-> l] : l \in DeviceLists}
    /\ bypath \in SUBSET ByPathNames

----------------------------------------------------------------------------
(* ScanForAttach tick by tick: a ticker of probeVolumeDuration and a timer *)
(* of probeVolumeTimeout, in seconds.                                      *)

probeVolumeDuration == 1
probeVolumeTimeout == 60

\* the ScanForAttach call: elapsed seconds since its start, tickReady and
\* timerReady: ticker.C and timer.C hold a value, ticks: ticker values taken,
\* probes: probeVolume calls, found: PathExists saw the device, late: a tick was taken after the caller's context
\* was cancelled
NoScan == [status |-> "idle", dev |-> "", elapsed |-> 0, tickReady |-> FALSE,
           timerReady |-> FALSE, ticks |-> 0, probes |-> 0, err |-> "",
           found |-> FALSE, late |-> FALSE]

ScanStart(devicePath) ==
    /\ sc.status # "running"
    /\ sc' = [NoScan EXCEPT !.dev = devicePath, !.status = "running"]
    /\ UNCHANGED <<cloudVars, histVars, w, nodeVars, procVars, diskVars, dp, ctx>>

\* a second passes: the ticker sends when its period is over (a value not yet
\* taken is kept, the new one dropped), the timer sends at probeVolumeTimeout
ClockSecond ==
    /\ sc.status = "running" /\ sc.elapsed < probeVolumeTimeout
    /\ sc' = [sc EXCEPT !.elapsed = @ + 1,
                      !.tickReady = @ \/ (sc.elapsed + 1) % probeVolumeDuration = 0,
                      !.timerReady = @ \/ sc.elapsed + 1 >= probeVolumeTimeout]
    /\ UNCHANGED <<cloudVars, histVars, w, nodeVars, procVars, diskVars, dp, ctx>>

\* the ticker case of ScanForAttach's select: probeVolume, then PathExists
ScanForAttachTick(st, exists) ==
    [st EXCEPT !.tickReady = FALSE, !.ticks = @ + 1, !.probes = @ + 1,
               !.found = exists, !.status = IF exists THEN "done" ELSE "running"]

\* variant: the timer ends the scan without an error
ScanForAttachTimer_NoError(st) ==
    [st EXCEPT !.timerReady = FALSE, !.status = "done"]

\* the timer case of ScanForAttach's select
ScanForAttachTimer(st) ==
    [st EXCEPT !.timerReady = FALSE, !.status = "done", !.err = "Timeout"]

\* select takes the ticker's value; existsOk: PathExists returns no error
ScanTick ==
    /\ sc.status = "running" /\ sc.tickReady
    /\ \E existsOk \in BOOLEAN :
         sc' = [ScanForAttachTick(sc, sc.dev \in devs /\ existsOk)
                   EXCEPT !.late = @ \/ ctx.cancelled]
    /\ UNCHANGED <<cloudVars, histVars, w, nodeVars, procVars, diskVars, dp, ctx>>

\* select takes the timer's value
ScanTimeout ==
    /\ sc.status = "running" /\ sc.timerReady
    /\ sc' = ScanForAttachTimer(sc)
    /\ UNCHANGED <<cloudVars, histVars, w, nodeVars, procVars, diskVars, dp, ctx>>

\* NodeStageVolume goes on after its ScanForAttach returned
NodeStageVolumeGoesOn(stagingTarget, capability) ==
    /\ sc.status = "done"
    /\ \E statOk \in BOOLEAN, mkdirOk \in BOOLEAN, mountOk \in BOOLEAN :
         LET a == NodeStageVolumeAfterScan(Node, sc.err, stagingTarget, sc.dev,
                                           capability, statOk, mkdirOk, mountOk)
         IN /\ dirs' = a.n.dirs
            /\ mounts' = a.n.mounts
            /\ fs' = a.n.fs
            /\ nlast' = StageCall(stagingTarget, sc.dev, capability, statOk, sc.err, a)
    /\ sc' = [sc EXCEPT !.status = "returned"]
    /\ UNCHANGED <<devs, cloudVars, histVars, w, procVars, diskVars, dp, ctx>>

NextScan ==
    \/ \E d \in Devices : ScanStart(d)
    \/ ClockSecond
    \/ ScanTick
    \/ ScanTimeout
    \/ \E d \in Devices : DeviceAppears(d)
    \/ \E d \in Devices : DeviceGone(d)

\* a NodeStageVolume request for the staging path /stage, second by second
NextStage ==
    \/ NextScan
    \/ \E c \in {"mount", "block"} : NodeStageVolumeGoesOn("/stage", c)

----------------------------------------------------------------------------
(* The caller's context. No loop takes it: cancelling changes ctx alone. *)

NoCtx == [call |-> "none", cancelled |-> FALSE]
PollCalls == {"wait", "resolve", "scan"}

Cancel ==
    /\ ctx.call # "none" /\ ~ctx.cancelled
    /\ ctx' = [ctx EXCEPT !.cancelled = TRUE]
    /\ UNCHANGED <<cloudVars, histVars, w, nodeVars, procVars, diskVars, dp, sc>>

----------------------------------------------------------------------------
(* Node identity behind NodeGetId and NodeGetInfo: every request goes through *)
(* GetMountProvider, which reads and writes the package variable MInstance    *)
(* without a lock, then reads the instance-id file, then asks the metadata    *)
(* service. Texts are sequences of tokens; " " and "\n" are white space.      *)

Threads == {"t1", "t2"}

IsSpace(c) == c \in {" ", "\n"}
Greatest(S) == CHOOSE k \in S : \A j \in S : k >= j

\* strings.TrimSpace
TrimSpace(text) ==
    LET keep == {k \in 1..Len(text) : ~IsSpace(text[k])}
    IN IF keep = {} THEN <<>> ELSE SubSeq(text, Least(keep), Greatest(keep))

\* the instance-id file: missing, unreadable, empty, blank, or holding an id
IDFiles ==
    { [err |-> "NotExist", content |-> <<>>],
      [err |-> "PermissionDenied", content |-> <<>>],
      [err |-> "", content |-> <<>>],
      [err |-> "", content |-> <<" ", "\n">>],
      [err |-> "", content |-> <<"i-file", "\n">>] }

\* what the metadata service gives: no answer, an answer with a uuid, an answer
\* whose JSON has no uuid
MetadataOutcomes ==
    { [err |-> "Unreachable", UUID |-> <<>>],
      [err |-> "", UUID |-> <<"i-meta">>],
      [err |-> "", UUID |-> <<>>] }

\* (m *Mount) GetInstanceID: the trimmed content of the file when it is read and
\* not blank; else the empty id with ReadFile's error, which is nil for a blank
\* file
Mount_GetInstanceID(file) ==
    IF file.err = "" /\ TrimSpace(file.content) # <<>>
    THEN [id |-> TrimSpace(file.content), err |-> ""]
    ELSE [id |-> <<>>, err |-> file.err]

\* getNodeIDMountProvider: GetMountProvider returns no error
getNodeIDMountProvider(file) ==
    LET r == Mount_GetInstanceID(file)
    IN IF r.err # "" THEN [id |-> <<>>, err |-> r.err] ELSE r

\* openstack.GetInstanceID
OpenStack_GetInstanceID(md) ==
    IF md.err # "" THEN [id |-> <<>>, err |-> md.err] ELSE [id |-> md.UUID, err |-> ""]

\* getNodeIDMetdataService
getNodeIDMetdataService(md) ==
    LET r == OpenStack_GetInstanceID(md)
    IN IF r.err # "" THEN [id |-> <<>>, err |-> r.err] ELSE r

\* getNodeID: asked tells whether the metadata service was asked
getNodeID(file, md) ==
    LET a == getNodeIDMountProvider(file) IN
    IF a.err = "" \/ a.id # <<>> THEN [id |-> a.id, err |-> "", asked |-> FALSE]
    ELSE LET b == getNodeIDMetdataService(md)
         IN IF b.err # "" THEN [id |-> <<>>, err |-> b.err, asked |-> TRUE]
            ELSE [id |-> b.id, err |-> "", asked |-> TRUE]

\* a request: pc is its place, m the Mount GetMountProvider returned to it (0:
\* none yet), id and err what getNodeID returned, file and asked what it read
NoRequest == [pc |-> "idle", op |-> "", m |-> 0, id |-> <<>>, err |-> "",
              file |-> [err |-> "", content |-> <<>>], asked |-> FALSE]

ProcUnchanged == UNCHANGED <<cloudVars, histVars, w, nodeVars, pollVars, blk>>

\* a NodeGetId or NodeGetInfo request arrives on thread t
NodeGetIdStart(t, op) ==
    /\ thr[t].pc \in {"idle", "done"}
    /\ thr' = [thr EXCEPT ![t] = [NoRequest EXCEPT !.pc = "check", !.op = op]]
    /\ UNCHANGED <<MInstance, made, idfile>>
    /\ ProcUnchanged

\* GetMountProvider: if MInstance == nil
GetMountProviderCheck(t) ==
    /\ thr[t].pc = "check"
    /\ thr' = [thr EXCEPT ![t].pc = IF MInstance = 0 THEN "assign" ELSE "return"]
    /\ UNCHANGED <<MInstance, made, idfile>>
    /\ ProcUnchanged

\* GetMountProvider: MInstance = &Mount{}
GetMountProviderAssign(t) ==
    /\ thr[t].pc = "assign"
    /\ made' = made + 1
    /\ MInstance' = made + 1
    /\ thr' = [thr EXCEPT ![t].pc = "return"]
    /\ UNCHANGED idfile
    /\ ProcUnchanged

\* GetMountProvider: return MInstance, nil
GetMountProviderReturn(t) ==
    /\ thr[t].pc = "return"
    /\ thr' = [thr EXCEPT ![t].pc = "id", ![t].m = MInstance]
    /\ UNCHANGED <<MInstance, made, idfile>>
    /\ ProcUnchanged

\* the rest of getNodeID, and the request's return
NodeGetIdReturn(t) ==
    /\ thr[t].pc = "id"
    /\ \E md \in MetadataOutcomes :
         LET r == getNodeID(idfile, md)
         IN thr' = [thr EXCEPT ![t].pc = "done", ![t].id = r.id, ![t].err = r.err,
                               ![t].file = idfile, ![t].asked = r.asked]
    /\ UNCHANGED <<MInstance, made, idfile>>
    /\ ProcUnchanged

\* the instance-id file is written, removed or made unreadable
InstanceIDFileChanges(f) ==
    /\ idfile # f
    /\ idfile' = f
    /\ UNCHANGED <<MInstance, made, thr>>
    /\ ProcUnchanged

NextIdentity ==
    \/ \E t \in Threads, op \in {"NodeGetId", "NodeGetInfo"} : NodeGetIdStart(t, op)
    \/ \E t \in Threads : GetMountProviderCheck(t)
    \/ \E t \in Threads : GetMountProviderAssign(t)
    \/ \E t \in Threads : GetMountProviderReturn(t)
    \/ \E t \in Threads : NodeGetIdReturn(t)
    \/ \E f \in IDFiles : InstanceIDFileChanges(f)

InitProc ==
    /\ MInstance = 0
    /\ made = 0
    /\ thr = [t \in Threads |-> NoRequest]
    /\ idfile = [err |-> "NotExist", content |-> <<>>]

----------------------------------------------------------------------------
(* GetDiskFormat: blkid's output is a sequence of tokens, words and the *)
(* characters "=", " ", "\n" and the double quote.                       *)

Quote == "\""
NotQuote(c) == c # Quote

RECURSIVE Split(_, _)
\* strings.Split(text, sep): the pieces between the separators
Split(text, sep) ==
    LET at == {k \in 1..Len(text) : text[k] = sep}
    IN IF at = {} THEN <<text>>
       ELSE <<SubSeq(text, 1, Least(at) - 1)>>
                \o Split(SubSeq(text, Least(at) + 1, Len(text)), sep)

\* the lines blkid -o export can print
ProbeLines ==
    { <<"DEVNAME", "=", "/dev/vdb">>,
      <<"TYPE", "=", "ext4">>,
      <<"TYPE", "=", Quote, "xfs", Quote>>,
      <<"PTTYPE", "=", "dos">>,
      <<"PTTYPE", "=", Quote, "gpt", Quote>>,
      <<>> }

MaxLines == 3

\* blkid's output of at most MaxLines lines
ProbeOutputs == UNION {[1..n -> ProbeLines] : n \in 0..MaxLines}

RECURSIVE Joined(_, _)
\* the lines one after the other with sep between them
Joined(lines, sep) ==
    IF Len(lines) = 0 THEN <<>>
    ELSE IF Len(lines) = 1 THEN lines[1]
    ELSE lines[1] \o <<sep>> \o Joined(Tail(lines), sep)

\* how m.Exec.Run("blkid", ...) ends: nil, an ExitError with status 2 or with
\* another status, an error that is no ExitError
RunErrors == {"", "exit 2", "exit 4", "exec: not found"}

notFormattable == <<"unknown data, probably partitions">>

\* variant: a filesystem type is returned before the partition table is looked at
GetDiskFormat_TypeFirst(dataOut, runErr) ==
    IF runErr = "exit 2" THEN [fstype |-> <<>>, err |-> ""]
    ELSE IF runErr # "" THEN [fstype |-> <<>>, err |-> runErr]
    ELSE LET output == TrimSpace(dataOut)
             byLine == Split(output, "\n")
             lines == IF Len(byLine) = 1 THEN Split(output, " ") ELSE byLine
             cs(k) == Split(lines[k], "=")
             has(key) == {k \in 1..Len(lines) :
                            Len(lines[k]) > 0 /\ Len(cs(k)) = 2 /\ cs(k)[1] = <<key>>}
             fstype == IF has("TYPE") = {} THEN <<>>
                       ELSE SelectSeq(cs(Greatest(has("TYPE")))[2], NotQuote)
             pttype == IF has("PTTYPE") = {} THEN <<>>
                       ELSE cs(Greatest(has("PTTYPE")))[2]
         IN IF Len(fstype) > 0 THEN [fstype |-> fstype, err |-> ""]
            ELSE IF Len(pttype) > 0 THEN [fstype |-> notFormattable, err |-> ""]
            ELSE [fstype |-> fstype, err |-> ""]

\* (m *Mount) GetDiskFormat(disk) when blkid printed dataOut and ended with runErr
GetDiskFormat(dataOut, runErr) ==
    IF runErr = "exit 2" THEN [fstype |-> <<>>, err |-> ""]
    ELSE IF runErr # "" THEN [fstype |-> <<>>, err |-> runErr]
    ELSE LET output == TrimSpace(dataOut)
             byLine == Split(output, "\n")
             lines == IF Len(byLine) = 1 THEN Split(output, " ") ELSE byLine
             cs(k) == Split(lines[k], "=")
             has(key) == {k \in 1..Len(lines) :
                            Len(lines[k]) > 0 /\ Len(cs(k)) = 2 /\ cs(k)[1] = <<key>>}
             fstype == IF has("TYPE") = {} THEN <<>>
                       ELSE SelectSeq(cs(Greatest(has("TYPE")))[2], NotQuote)
             pttype == IF has("PTTYPE") = {} THEN <<>>
                       ELSE cs(Greatest(has("PTTYPE")))[2]
         IN IF Len(pttype) > 0 THEN [fstype |-> notFormattable, err |-> ""]
            ELSE [fstype |-> fstype, err |-> ""]

\* the latest probe: the lines blkid printed, the separator between them, how
\* blkid ended, and what GetDiskFormat returned
NoProbe == [called |-> FALSE, lines |-> <<>>, sep |-> "\n", runErr |-> "",
            fstype |-> <<>>, err |-> ""]

\* any run of blkid, GetDiskFormat not yet called on it
AnyProbe ==
    {[NoProbe EXCEPT !.lines = lines, !.sep = sep, !.runErr = runErr] :
        lines \in ProbeOutputs, sep \in {"\n", " "}, runErr \in RunErrors}

GetDiskFormatCall ==
    /\ ~blk.called
    /\ LET r == GetDiskFormat(Joined(blk.lines, blk.sep) \o <<"\n">>, blk.runErr)
       IN blk' = [blk EXCEPT !.called = TRUE, !.fstype = r.fstype, !.err = r.err]
    /\ UNCHANGED <<cloudVars, histVars, w, nodeVars, pollVars, MInstance, made, thr, idfile>>

NextProbe == GetDiskFormatCall

\* the value of the last line key=value among lines, quotes dropped
Reported(lines, key) ==
    LET at == {k \in 1..Len(lines) :
                 Len(lines[k]) > 2 /\ SubSeq(lines[k], 1, 2) = <<key, "=">>}
    IN IF at = {} THEN <<>>
       ELSE SelectSeq(SubSeq(lines[Greatest(at)], 3, Len(lines[Greatest(at)])), NotQuote)

----------------
(* Specification of the driver's calls against the registry *)

InitCloud ==
    /\ vols = [v \in Volumes |-> [exists |-> FALSE, status |-> VolumeDeletedStatus,
                                  attachments |-> <<>>]]
    /\ pending = {}

\* no call made yet
InitCalls ==
    /\ InitCloud
    /\ last = NoStep
    /\ prev = NoStep
    /\ attachOK = [v \in Volumes |-> {}]
    /\ attachAcc = [v \in Volumes |-> {}]
    /\ w = NoWait
    /\ InitNode
    /\ dp = NoResolve
    /\ sc = NoScan
    /\ InitProc

Init ==
    /\ InitCalls
    /\ InitDisk
    /\ ctx = NoCtx
    /\ blk = NoProbe

Next ==
    \/ \E v \in Volumes : CreateVolumeCall(v)
    \/ \E i \in Instances, v \in Volumes : AttachVolumeCall(i, v)
    \/ \E i \in Instances, v \in Volumes : DetachVolumeCall(i, v)
    \/ \E v \in Volumes : DeleteVolumeCall(v)
    \/ \E r \in pending : CloudCompleteAttach(r)
    \/ \E r \in pending : CloudCompleteDetach(r)
    \/ \E v \in Volumes : CloudError(v)

Spec == Init /\ [][Next]_vars

(* Specification of the wait loops against a changing registry *)

NextWait ==
    \/ \E k \in {"attach", "detach"}, i \in Instances, v \in Volumes : WaitStart(k, i, v)
    \/ WaitDiskAttached
    \/ WaitDiskDetached
    \/ \E v \in Volumes : ConcurrentCreate(v)
    \/ \E i \in Instances, v \in Volumes : ConcurrentAttach(i, v)
    \/ \E i \in Instances, v \in Volumes : ConcurrentDetach(i, v)
    \/ \E v \in Volumes : ConcurrentDelete(v)
    \/ RegistryStep

SpecWait == Init /\ [][NextWait]_vars

(* Specification of the node server's calls *)

SpecNode == Init /\ [][NextNode]_vars

(* Specification of GetDevicePath on any disks *)

InitResolve ==
    /\ InitCalls
    /\ AnyDisk
    /\ ctx = NoCtx
    /\ blk = NoProbe

SpecResolve == InitResolve /\ [][NextResolve]_vars

(* Specification of the polling loops under a context that can be cancelled: *)
(* the call is a wait for the registry, a GetDevicePath or a ScanForAttach.  *)

InitPoll ==
    /\ InitCalls
    /\ InitDisk
    /\ \E c \in PollCalls : ctx = [call |-> c, cancelled |-> FALSE]
    /\ blk = NoProbe

NextPoll ==
    \/ ctx.call = "wait" /\ NextWait
    \/ ctx.call = "resolve" /\ NextResolve
    \/ ctx.call = "scan" /\ NextScan
    \/ Cancel

SpecPoll == InitPoll /\ [][NextPoll]_vars

(* Specification of NodeStageVolume with its scan tick by tick *)

SpecStage == Init /\ [][NextStage]_vars

(* Specification of concurrent NodeGetId / NodeGetInfo requests *)

SpecIdentity == Init /\ [][NextIdentity]_vars

(* Specification of GetDiskFormat on any output of blkid *)

InitProbe ==
    /\ InitCalls
    /\ InitDisk
    /\ ctx = NoCtx
    /\ blk \in AnyProbe

SpecProbe == InitProbe /\ [][NextProbe]_vars

----------------------------------------------------------------------------
(* Properties of the driver's calls against the registry (Spec) *)

TwoAttaches ==
    /\ prev.op = "Attach" /\ last.op = "Attach"
    /\ prev.inst = last.inst /\ prev.vol = last.vol

\* C1 (as stated): two AttachVolume(I, V) calls in immediate succession both
\* return the volume id, and attachedServerId after the second equals its value
\* after the first, in every reachable registry state (granting the claim that
\* neither fetch fails and the registry rejects no request).
C1_BothAttachesSucceed ==
    (TwoAttaches /\ prev.getErr = "" /\ last.getErr = ""
                 /\ prev.result # "BackendError" /\ last.result # "BackendError") =>
        /\ prev.result = "ok" /\ prev.handle = prev.vol
        /\ last.result = "ok" /\ last.handle = last.vol
        /\ last.srvAfter = prev.srvAfter

AttachDecidedByRecord(s) ==
    s.getErr = "" =>
        /\ s.fServer = s.inst => s.result = "ok" /\ s.handle = s.vol /\ ~s.issued
        /\ s.fServer \notin {"", s.inst} => s.result = "Conflict" /\ ~s.issued
        /\ s.fServer = "" => s.issued /\ s.result \in {"ok", "BackendError"}
        /\ s.result = "ok" => s.handle = s.vol

\* C1 (amended): two AttachVolume(I, V) calls in immediate succession leave
\* attachedServerId unchanged and fetch the same attachment; each call whose fetch
\* succeeds returns the volume id without a registry call when the record shows V
\* attached to I, fails with Conflict when it shows another instance, and
\* otherwise (V unattached, also while an accepted attach is still pending) issues
\* a registry attach request and succeeds only if the registry accepts it.
C1_AttachTwice ==
    TwoAttaches =>
        /\ last.srvAfter = prev.srvAfter
        /\ AttachDecidedByRecord(prev)
        /\ AttachDecidedByRecord(last)
        /\ (prev.getErr = "" /\ last.getErr = "") => last.fServer = prev.fServer
        /\ (prev.getErr = "" /\ prev.fServer = prev.inst /\ last.getErr = "")
              => last.result = "ok" /\ ~last.issued /\ last.srvAfter = last.inst

\* two successive attaches to the instance the record already shows: both succeed
C1_Witness ==
    /\ TwoAttaches
    /\ prev.result = "ok" /\ ~prev.issued /\ prev.fServer = prev.inst
    /\ last.result = "ok" /\ ~last.issued /\ last.srvAfter = last.inst

\* C2: once AttachVolume(B, V) has returned success and V has not been detached,
\* a following AttachVolume(A, V), A # B, whose fetch succeeds fails with Conflict
\* and issues no registry attach call.
C2_ConflictAfterAttach ==
    (last.op = "Attach" /\ last.afterOther /\ last.getErr = "")
        => (last.result = "Conflict" /\ ~last.issued)

\* C3: no volume gets registry attach requests accepted for two different
\* instances without a detach in between.
C3_OneAttachAccepted ==
    \A v \in Volumes : Cardinality(attachAcc[v]) <= 1

\* C4: DeleteVolume(V) whose fetch fails, or fetches a non-empty
\* attachedServerId, returns an error and never invokes the registry delete call.
C4_DeleteGuarded ==
    (last.op = "Delete" /\ (last.getErr # "" \/ last.fServer # ""))
        => (last.result # "ok" /\ ~last.issued /\ ~last.changed)

C4_Witness ==
    /\ last.op = "Delete" /\ last.getErr = "" /\ last.fServer # ""
    /\ last.result = "StillAttached" /\ vols[last.vol].exists

\* C8: DetachVolume(I, V) on a volume fetched with status available returns
\* success, issues no registry detach call and leaves the records unchanged.
C8_DetachAvailableNoop ==
    (last.op = "Detach" /\ last.getErr = "" /\ last.fStatus = VolumeAvailableStatus)
        => (last.result = "ok" /\ ~last.issued /\ ~last.changed)

C8_Witness ==
    /\ last.op = "Detach" /\ last.getErr = "" /\ last.fStatus = VolumeAvailableStatus
    /\ last.result = "ok"

\* C9: DetachVolume(I, V) fails with InvalidState when the fetched status is
\* neither available nor in-use, and with NotAttachedHere when it is in-use but
\* attachedServerId # I, issuing no registry call in either case; the registry
\* detach call is issued only when the status is in-use and attachedServerId = I.
C9_DetachErrors ==
    (last.op = "Detach" /\ last.getErr = "") =>
        /\ last.fStatus \notin {VolumeAvailableStatus, VolumeInUseStatus}
              => (last.result = "InvalidState" /\ ~last.issued)
        /\ (last.fStatus = VolumeInUseStatus /\ last.fServer # last.inst)
              => (last.result = "NotAttachedHere" /\ ~last.issued)
        /\ last.issued => (last.fStatus = VolumeInUseStatus /\ last.fServer = last.inst)

C9_Witness ==
    /\ last.op = "Detach" /\ last.result = "NotAttachedHere"
    /\ last.fStatus = VolumeInUseStatus /\ last.fServer \notin {"", last.inst}

----------------------------------------------------------------------------
(* Properties of the wait loops (SpecWait) *)

GetErrors == {"NotFound", "BackendError"}

\* C5: a WaitDiskAttached whose Get shows the volume unattached on every poll
\* ends with Timeout after exactly 15 polls; no wait polls more than that.
C5_WaitAttachedTimeout ==
    w.kind = "attach" =>
        /\ w.polls <= 15
        /\ w.seen \subseteq {"unattached"} =>
              /\ w.polls < 15 => w.result = "running"
              /\ w.polls = 15 => w.result = "Timeout"

C5_Witness ==
    /\ w.kind = "attach" /\ w.seen = {"unattached"}
    /\ w.polls = 15 /\ w.result = "Timeout"

\* C6: in WaitDiskAttached a Get failing with NotFound counts as not yet attached
\* and polling goes on (all NotFound ends in Timeout, never in NotFound); any
\* other Get error ends the wait at that tick with that error.
C6_WaitAttachedNotFound ==
    (w.kind = "attach" /\ w.polls > 0) =>
        /\ w.tick = "NotFound" =>
              w.result = (IF w.polls < diskAttachSteps THEN "running" ELSE "Timeout")
        /\ w.result # "NotFound"
        /\ "BackendError" \in w.seen =>
              (w.result = "BackendError" /\ w.tick = "BackendError")
        /\ w.result = "BackendError" => w.tick = "BackendError"

\* a NotFound tick was absorbed and a later backend error ended the wait
C6_Witness ==
    /\ w.kind = "attach" /\ w.seen = {"NotFound", "BackendError"}
    /\ w.result = "BackendError" /\ w.polls > 1

\* C7: in WaitDiskDetached any fetch error, NotFound included, ends the wait at
\* that tick: the error is returned, nothing is polled after it, and the wait
\* does not report success.
C7_WaitDetachedAborts ==
    w.kind = "detach" =>
        /\ \A e \in GetErrors : e \in w.seen => (w.result = e /\ w.tick = e)
        /\ w.result \in GetErrors => w.tick = w.result

C7_Witness ==
    /\ w.kind = "detach" /\ w.result = "NotFound" /\ w.tick = "NotFound"
    /\ w.polls > 1

----------------------------------------------------------------------------
(* Properties of the node server's calls (SpecNode) *)

\* C10: NodeUnstageVolume and NodeUnpublishVolume on a path that is not a mount
\* point (the mount-point check itself not failing on stat) return NotFound,
\* attempt no unmount and leave the mount table unchanged.
C10_UnmountNonMountPoint ==
    (nlast.op \in {"Unstage", "Unpublish"} /\ ~nlast.wasMnt /\ ~nlast.statErr)
        => (nlast.result = "NotFound" /\ nlast.unmounts = 0 /\ ~nlast.changed)

\* the part of C10 the code keeps: no unmount and no change of the mount table
\* on a path that is not a mount point, whatever the result
C10_NoUnmountAttempt ==
    (nlast.op \in {"Unstage", "Unpublish"} /\ ~nlast.wasMnt)
        => (nlast.result \in {"NotFound", "Internal"} /\ nlast.unmounts = 0
            /\ ~nlast.changed)

\* C11: NodeUnpublishVolume on a mount point (its stat not failing) makes one
\* unmount and touches no other path's mounts, the staging mount included; it
\* returns success with the target no longer a mount point, or Internal when the
\* unmount itself failed and nothing changed.
C11_UnpublishUnmounts ==
    (nlast.op = "Unpublish" /\ nlast.wasMnt /\ ~nlast.statErr)
        => /\ nlast.unmounts = 1 /\ nlast.othersKept
           /\ nlast.result \in {"ok", "Internal"}
           /\ nlast.result = "ok" => mounts[nlast.path] = <<>>
           /\ nlast.result = "Internal" => ~nlast.changed

C11_Witness ==
    /\ nlast.op = "Unpublish" /\ nlast.result = "ok" /\ nlast.path = "/pub"
    /\ nlast.wasSrc = "/stage" /\ mounts["/pub"] = <<>>
    /\ mounts["/stage"] # <<>> /\ mounts["/stage"][1].kind = "dev"

\* a stage request with a staging path and a device handle, on a staging path
\* that is a mount point, the mount-point check not failing on stat
StageOfStaged ==
    /\ nlast.op = "Stage" /\ nlast.path # "" /\ nlast.hasDev
    /\ nlast.wasMnt /\ ~nlast.statErr

C13_PublishIdempotent ==
    (nlast.op = "Publish" /\ nlast.wasMnt /\ ~nlast.statErr)
        => /\ nlast.result = "ok" /\ ~nlast.mounted /\ ~nlast.changed
           /\ Len(mounts[nlast.path]) = 1

C13_Witness ==
    /\ nlast.op = "Publish" /\ nlast.wasMnt /\ nlast.result = "ok"
    /\ nlast.wasSrc = nlast.src /\ nlast.srcMnt
    /\ mounts[nlast.path] = <<[kind |-> "bind", src |-> nlast.src, ro |-> FALSE]>>

\* C14: NodePublishVolume creates its bind mount only when the staging path is
\* a mount point.
C14_PublishRequiresStaged ==
    (nlast.op = "Publish" /\ nlast.mounted) => nlast.srcMnt

\* C15: NodeUnstageVolume unmounts the staging path only when no bind mount of
\* that staging path exists.
C15_UnstageRequiresNotPublished ==
    (nlast.op = "Unstage" /\ nlast.unmounts > 0 /\ nlast.changed) => ~nlast.hadBind

\* C16: a NodeStageVolume request with a block capability (staging path and
\* device handle given, device found, staging path existing and its stat not
\* failing) ends with Unimplemented and neither formats nor mounts, whether or
\* not the staging path is a mount point.
C16_BlockUnimplemented ==
    (/\ nlast.op = "Stage" /\ nlast.cap = "block" /\ nlast.path # "" /\ nlast.hasDev
     /\ nlast.scan = "found" /\ nlast.existed /\ ~nlast.statErr)
        => (nlast.result = "Unimplemented" /\ ~nlast.mounted /\ ~nlast.formatted)

\* the part of C16 the code keeps: a block request never formats or mounts
C16_BlockNeverMounts ==
    (nlast.op = "Stage" /\ nlast.cap = "block")
        => (~nlast.mounted /\ ~nlast.formatted /\ ~nlast.changed)

----------------------------------------------------------------------------
(* Properties of the polling loops (SpecPoll) and of GetDevicePath (SpecResolve) *)

C17_WitnessResolve ==
    /\ dp.status = "done" /\ dp.impl = "openstack" /\ dp.err = "Timeout"
    /\ dp.polls = operationFinishSteps /\ dp.tick.metaAsked

\* WaitDiskDetached timed out
C17_WitnessDetach ==
    /\ w.kind = "detach" /\ w.result = "Timeout" /\ w.polls = diskDetachSteps

\* C18: once the caller's context is cancelled no loop makes another round.
C18_StopsOnCancel ==
    ~w.late /\ ~dp.late /\ ~sc.late

\* C19: in a round of GetDevicePath where the by-id strategy yields a path, that
\* path is the round's and the call's result and the metadata service is not
\* asked in that round.
C19_ByIdFirst ==
    (dp.polls > 0 /\ dp.tick.byId # NoPath)
        => /\ dp.tick.devicePath = dp.tick.byId /\ ~dp.tick.metaAsked
           /\ dp.status = "done" /\ dp.err = "" /\ dp.devicePath = dp.tick.byId

\* the by-id strategy won where the metadata strategy has a path as well
C19_Witness ==
    /\ dp.impl = "openstack" /\ dp.status = "done" /\ dp.tick.byId # NoPath
    /\ dp.devicePath = dp.tick.byId
    /\ getDevicePathFromInstanceMetadata(dp.vol, meta, bypath) # NoPath

\* C20: the metadata strategy yields a path exactly when the service answers,
\* Devices has a disk entry with the volume's serial and the glob for the first
\* such entry's bus and address succeeds with exactly one match, which is the
\* path; in every other case it yields the empty path, and it never panics.
C20_MetadataOneMatch ==
    dp.tick.metaAsked =>
        LET v == dp.tick.view IN
        /\ ~dp.tick.panic /\ dp.err # "panic"
        /\ dp.tick.metaPath # NoPath
              <=> (v.ok /\ v.matched /\ ~v.globErr /\ v.count = 1)
        /\ dp.tick.metaPath # NoPath => dp.tick.metaPath = v.paths[1]

\* two by-path names match the entry: no path
C20_Witness ==
    /\ dp.tick.metaAsked /\ dp.tick.view.matched /\ dp.tick.view.count = 2
    /\ dp.tick.metaPath = NoPath /\ dp.status = "done" /\ dp.err = "Timeout"

\* exactly one by-path name matches the entry: its path is the call's result
C20_WitnessOne ==
    /\ dp.tick.metaAsked /\ dp.tick.view.count = 1 /\ Len(meta.Devices) = 2
    /\ dp.status = "done" /\ dp.err = "" /\ dp.devicePath = dp.tick.metaPath
    /\ dp.devicePath.dir = "/dev/disk/by-path/"

\* C21: across any interleaving of concurrent GetMountProvider callers the
\* mount provider is constructed at most once, and any two callers hold the
\* same instance.
C21_OneInstance ==
    /\ made <= 1
    /\ \A t1, t2 \in Threads :
         (thr[t1].m # 0 /\ thr[t2].m # 0) => thr[t1].m = thr[t2].m

\* C29: a request that getNodeID answered without error carries a non-empty
\* node id, and when the instance-id file gave no id the metadata service was
\* asked for it.
C29_NodeIDNonEmpty ==
    \A t \in Threads :
        (thr[t].pc = "done" /\ thr[t].err = "")
            => /\ thr[t].id # <<>>
               /\ (thr[t].file.err # "" \/ TrimSpace(thr[t].file.content) = <<>>)
                     => thr[t].asked

\* C30: GetDiskFormat gives the empty type and no error when blkid exits with
\* status 2, an error on any other failure of blkid, the non-formattable
\* sentinel when blkid reports a PTTYPE (with or without a TYPE), and else the
\* filesystem type blkid reports.
C30_DiskFormat ==
    blk.called =>
        /\ blk.runErr = "exit 2" => (blk.fstype = <<>> /\ blk.err = "")
        /\ blk.runErr \notin {"", "exit 2"} => (blk.fstype = <<>> /\ blk.err # "")
        /\ blk.runErr = "" =>
             /\ blk.err = ""
             /\ blk.fstype = IF Reported(blk.lines, "PTTYPE") # <<>> THEN notFormattable
                             ELSE Reported(blk.lines, "TYPE")

\* blkid reported a filesystem type and a partition table type on one line
C30_Witness ==
    /\ blk.called /\ blk.runErr = "" /\ blk.sep = " "
    /\ Reported(blk.lines, "PTTYPE") # <<>> /\ Reported(blk.lines, "TYPE") = <<"xfs">>
    /\ blk.fstype = notFormattable

\* C23: each round of a wait decides on the record it fetched in that round
\* alone: WaitDiskAttached succeeds exactly in the round whose record shows the
\* instance, whatever earlier rounds showed, and WaitDiskDetached exactly in
\* the round whose record does not show it.
C23_FreshRead ==
    w.polls > 0 =>
        /\ w.kind = "attach" => (w.result = "ok" <=> w.tick = "attached")
        /\ w.kind = "detach" => (w.result = "ok" <=> w.tick \in {"unattached", "other"})

\* WaitDiskAttached succeeded in a late round after rounds that showed the
\* volume unattached
C23_Witness ==
    /\ w.kind = "attach" /\ w.result = "ok" /\ w.polls > 2
    /\ "unattached" \in w.seen /\ w.tick = "attached"

\* C28: WaitDiskDetached succeeds in the first round whose record shows another
\* attachment than the instance, one to another instance included: every
\* earlier round showed the instance.
C28_DetachedOnFirstOther ==
    (w.kind = "detach" /\ w.polls > 0) =>
        /\ w.tick = "other" => w.result = "ok"
        /\ w.seen \ {w.tick} \subseteq {"attached"}
        /\ w.result \in {"running", "Timeout"} => w.seen = {"attached"}

\* WaitDiskDetached succeeded on a record attached to another instance, after
\* rounds that showed the instance
C28_Witness ==
    /\ w.kind = "detach" /\ w.result = "ok" /\ w.tick = "other"
    /\ w.polls > 1 /\ "attached" \in w.seen

\* C24: a GetDevicePath call, of either implementation, for a volume that the
\* metadata strategy resolves does not end without a path.
C24_MetadataResolves ==
    (dp.status = "done" /\ Len(dp.vol) >= 20
        /\ getDevicePathFromInstanceMetadata(dp.vol, meta, bypath) # NoPath)
      => (dp.err = "" /\ dp.devicePath # NoPath)

\* the candidate names of the volume present in the by-id directory, in
\* candidate order
PresentCandidates(volumeID, dir) ==
    LET in(c) == dir.readable /\ c \in dir.files
    IN SelectSeq(candidateDeviceNodes(volumeID), in)

\* C25: the by-id strategy yields the path of the earliest candidate, in the
\* order virtio, scsi, wwn, that is present in the by-id directory, and no
\* path when none is.
C25_CandidateOrder ==
    (dp.status = "done" /\ Len(dp.vol) >= 20) =>
        dp.tick.byId = IF PresentCandidates(dp.vol, byid) = <<>> THEN NoPath
                       ELSE Join("/dev/disk/by-id/", PresentCandidates(dp.vol, byid)[1])

\* C26: no GetDevicePath call ends in a crash of a resolver strategy, whatever
\* the length of the volume id.
C26_NeverCrashes ==
    dp.err # "panic" /\ ~dp.tick.panic

C27_WitnessTimeout ==
    /\ dp.status = "done" /\ dp.err = "Timeout" /\ dp.impl = "mount"

\* C22: NodeStageVolume calls FormatAndMount only after a tick of its scan saw
\* the device path; when the scan ends by its timer the call fails with
\* Internal and has neither created the staging directory nor formatted nor
\* mounted; every tick of the scan has run probeVolume.
C22_ScanBeforeMount ==
    /\ sc.probes = sc.ticks
    /\ sc.status = "returned" =>
          /\ nlast.op = "Stage" /\ nlast.scan = (IF sc.found THEN "found" ELSE "Timeout")
          /\ (nlast.attempted \/ nlast.mounted \/ nlast.formatted)
                => (sc.found /\ sc.err = "" /\ sc.probes >= 1)
          /\ ~sc.found =>
                /\ sc.err = "Timeout" /\ sc.elapsed = probeVolumeTimeout
                /\ nlast.result = "Internal"
                /\ ~nlast.attempted /\ ~nlast.mounted /\ ~nlast.formatted
                /\ ~nlast.changed
                /\ ~nlast.existed => nlast.path \notin dirs

\* the device never appeared: the call failed after the scan's ticks and the
\* staging directory was not created
C22_Witness ==
    /\ sc.status = "returned" /\ sc.err = "Timeout" /\ sc.ticks > 1
    /\ nlast.result = "Internal" /\ ~nlast.existed /\ nlast.path \notin dirs

\* the device appeared during the scan: the call formatted and mounted it
C22_WitnessMounted ==
    /\ sc.status = "returned" /\ sc.found /\ sc.ticks > 1
    /\ nlast.attempted /\ nlast.mounted /\ nlast.formatted /\ nlast.result = "ok"

====
